---- MODULE Spec2Model ----
(***************************************************************************)
(* RPA-Pass: a mailbox robot that reads unread e-mails, extracts the       *)
(* fields of a vehicle pass request, renders a memo from a template,       *)
(* sends it to the security mailbox and marks the e-mail as read.          *)
(*                                                                         *)
(* Text is modelled as a sequence of one-character tokens.  ASCII          *)
(* characters stand for themselves.  A Cyrillic letter is written as a     *)
(* token "c<translit>" (lower case) or "C<translit>" (upper case):         *)
(* "Cts" is the capital letter TSE, "csoft" the soft sign.  "NBSP" is the  *)
(* no-break space U+00A0.                                                  *)
(***************************************************************************)
EXTENDS Integers, Sequences, FiniteSets, TLC

(***************************************************************************)
(* Characters and the character classes of Python's re module (str         *)
(* patterns).                                                              *)
(***************************************************************************)
Digit == {"0", "1", "2", "3", "4", "5", "6", "7", "8", "9"}

\* \s of a str pattern: ASCII white space and the Unicode spaces
Space == {" ", "\t", "\n", "\r", "\f", "NBSP"}

CyrPairs ==
    { <<"ca", "Ca">>, <<"cv", "Cv">>, <<"cg", "Cg">>, <<"cd", "Cd">>,
      <<"ce", "Ce">>, <<"cz", "Cz">>, <<"ci", "Ci">>, <<"ck", "Ck">>,
      <<"cl", "Cl">>, <<"cn", "Cn">>, <<"co", "Co">>, <<"cp", "Cp">>,
      <<"cr", "Cr">>, <<"cs", "Cs">>, <<"ct", "Ct">>, <<"cu", "Cu">>,
      <<"cts", "Cts">>, <<"cch", "Cch">>, <<"csoft", "Csoft">>,
      <<"cm", "Cm">> }

LatPairs ==
    { <<"a", "A">>, <<"b", "B">>, <<"c", "C">>, <<"d", "D">>,
      <<"o", "O">>, <<"x", "X">> }

CasePairs == CyrPairs \cup LatPairs

\* the letters of the range [A-YA] / [a-ya]; YO lies outside the range
CyrRange == {p[1] : p \in CyrPairs} \cup {p[2] : p \in CyrPairs}
CyrLetter == CyrRange \cup {"cyo", "Cyo"}
LatLetter == {p[1] : p \in LatPairs} \cup {p[2] : p \in LatPairs}

\* str.upper() of one character
ToUpper(c) ==
    IF \E p \in CasePairs : p[1] = c
    THEN (CHOOSE p \in CasePairs : p[1] = c)[2]
    ELSE IF c = "cyo" THEN "Cyo" ELSE c

\* case folding of re.IGNORECASE
ToLower(c) ==
    IF \E p \in CasePairs : p[2] = c
    THEN (CHOOSE p \in CasePairs : p[2] = c)[1]
    ELSE IF c = "Cyo" THEN "cyo" ELSE c

\* an absent field (Python's None)
None == <<"None">>

\* Python truthiness of an optional string
Truthy(v) == v /= None /\ v /= <<>>

(***************************************************************************)
(* String helpers: str.strip, str.rstrip("."), str.replace(c, ""),         *)
(* str.upper, str.split("\n").                                             *)
(***************************************************************************)
RECURSIVE LStrip(_)
LStrip(t) ==
    IF t /= <<>> /\ Head(t) \in Space THEN LStrip(Tail(t)) ELSE t

RECURSIVE RStrip(_)
RStrip(t) ==
    IF t /= <<>> /\ t[Len(t)] \in Space
    THEN RStrip(SubSeq(t, 1, Len(t) - 1))
    ELSE t

Strip(t) == RStrip(LStrip(t))

RECURSIVE RStripDot(_)
RStripDot(t) ==
    IF t /= <<>> /\ t[Len(t)] = "."
    THEN RStripDot(SubSeq(t, 1, Len(t) - 1))
    ELSE t

RemoveChar(t, c) == SelectSeq(t, LAMBDA x : x /= c)

UpperStr(t) == [i \in 1..Len(t) |-> ToUpper(t[i])]

\* position of the first "\n" at or after i, Len(t)+1 when there is none
RECURSIVE LineEnd(_, _)
LineEnd(t, i) ==
    IF i > Len(t) \/ t[i] = "\n" THEN i ELSE LineEnd(t, i + 1)

RECURSIVE SplitLines(_)
SplitLines(t) ==
    LET e == LineEnd(t, 1)
    IN  IF e > Len(t)
        THEN <<t>>
        ELSE <<SubSeq(t, 1, e - 1)>> \o SplitLines(SubSeq(t, e + 1, Len(t)))

(***************************************************************************)
(* Regular-expression matching.  A matcher M(t, i) returns the position    *)
(* after the match that starts at i, or 0 when nothing matches at i.       *)
(***************************************************************************)
At(t, i) == IF i >= 1 /\ i <= Len(t) THEN t[i] ELSE "EOT"

\* \d{n}
RECURSIVE Digits(_, _, _)
Digits(t, i, n) ==
    IF i = 0 THEN 0
    ELSE IF n = 0 THEN i
    ELSE IF At(t, i) \in Digit THEN Digits(t, i + 1, n - 1)
    ELSE 0

\* a literal character
Lit(t, i, c) == IF i /= 0 /\ At(t, i) = c THEN i + 1 ELSE 0

\* a literal string under re.IGNORECASE
RECURSIVE LitSeqI(_, _, _)
LitSeqI(t, i, s) ==
    IF i = 0 THEN 0
    ELSE IF s = <<>> THEN i
    ELSE IF ToLower(At(t, i)) = ToLower(Head(s))
         THEN LitSeqI(t, i + 1, Tail(s))
         ELSE 0

\* \s* (greedy): what follows it in every pattern here starts with a
\* non-space character, so giving characters back never helps
RECURSIVE Spaces(_, _)
Spaces(t, i) ==
    IF i = 0 THEN 0
    ELSE IF At(t, i) \in Space THEN Spaces(t, i + 1)
    ELSE i

\* [-\s]? (greedy): a digit must follow, so the separator is taken
\* whenever it is there
OptSep(t, i) ==
    IF i = 0 THEN 0
    ELSE IF At(t, i) \in Space \cup {"-"} THEN i + 1
    ELSE i

\* re.search: the leftmost position at which M matches, as <<start, next>>,
\* or <<0, 0>>
Search(t, M(_, _)) ==
    LET S == {i \in 1..Len(t) : M(t, i) /= 0}
    IN  IF S = {} THEN <<0, 0>>
        ELSE LET i == CHOOSE x \in S : \A y \in S : x <= y
             IN  <<i, M(t, i)>>

\* match.group(0) of a successful search
Group0(t, m) == SubSeq(t, m[1], m[2] - 1)

(***************************************************************************)
(* EmailParser (src/modules/parser.py).                                    *)
(***************************************************************************)
\* [A-YA A-Z] under re.IGNORECASE
PlateLetter == CyrRange \cup LatLetter

PlateLetterAt(t, i) ==
    IF i /= 0 /\ At(t, i) \in PlateLetter THEN i + 1 ELSE 0

\* patterns["license_plate"]: letter, \d{3}, letter{2}, \d{2,3} (greedy)
PlatePattern(t, i) ==
    LET d == Digits(t, PlateLetterAt(t, PlateLetterAt(t,
                 Digits(t, PlateLetterAt(t, i), 3))), 2)
    IN  IF d /= 0 /\ At(t, d) \in Digit THEN d + 1 ELSE d

extract_license_plate(text) ==
    LET m == Search(text, PlatePattern)
    IN  IF m[1] /= 0 THEN UpperStr(Group0(text, m)) ELSE None

\* patterns["driver_phone"], first alternative
PhoneSpaced(t, i) ==
    Digits(t, OptSep(t, Digits(t, OptSep(t, Digits(t, OptSep(t,
        Digits(t, Spaces(t, Lit(t, Lit(t, i, "+"), "7")), 3)), 3)), 2)), 2)

\* patterns["driver_phone"], second alternative
PhoneParen(t, i) ==
    Digits(t, Lit(t, Digits(t, Lit(t, Digits(t, Spaces(t, Lit(t,
        Digits(t, Lit(t, Spaces(t, Lit(t, Lit(t, i, "+"), "7")), "("), 3),
        ")")), 3), "-"), 2), "-"), 2)

PhonePattern(t, i) ==
    IF PhoneSpaced(t, i) /= 0 THEN PhoneSpaced(t, i) ELSE PhoneParen(t, i)

extract_driver_phone(text) ==
    LET m == Search(text, PhonePattern)
    IN  IF m[1] /= 0
        THEN RemoveChar(RemoveChar(RemoveChar(RemoveChar(
                 Group0(text, m), " "), "-"), "("), ")")
        ELSE None

\* patterns["visit_date"]: (\d{2}\.\d{2}\.\d{4})|(\d{2}\.\d{2}\.20\d{2})
DateAny(t, i) ==
    Digits(t, Lit(t, Digits(t, Lit(t, Digits(t, i, 2), "."), 2), "."), 4)

Date20(t, i) ==
    Digits(t, Lit(t, Lit(t, Lit(t, Digits(t, Lit(t, Digits(t, i, 2), "."), 2),
        "."), "2"), "0"), 2)

DatePattern(t, i) ==
    IF DateAny(t, i) /= 0 THEN DateAny(t, i) ELSE Date20(t, i)

extract_visit_date(text) ==
    LET m == Search(text, DatePattern)
    IN  IF m[1] /= 0 THEN Group0(text, m) ELSE None

\* the labels of patterns["visit_purpose"], in the order of the alternation
PurposeLabels ==
    << <<"Cts", "ce", "cl", "csoft", " ", "cv", "ci", "cz", "ci", "ct", "ca">>,
       <<"Cts", "ce", "cl", "csoft", ":">>,
       <<"Cts", "ce", "cl", "csoft", " ", "cz", "ca", "ce", "cz", "cd", "ca">>,
       <<"Cp", "cr", "ci", "cch", "ci", "cn", "ca", ":">> >>

\* \s*(.+?)(?:\n|$) from position a, as <<first, last>> of group 1 or
\* <<0, 0>>.  \s* is greedy and gives characters back until a character
\* other than "\n" is there for ".+?" to take; the lazy group then runs to
\* the end of its line.
PurposeGroup(t, a) ==
    LET K == Spaces(t, a) - a
        S == {k \in 0..K : a + k <= Len(t) /\ t[a + k] /= "\n"}
    IN  IF S = {} THEN <<0, 0>>
        ELSE LET k == CHOOSE x \in S : \A y \in S : y <= x
             IN  <<a + k, LineEnd(t, a + k + 1) - 1>>

\* the alternatives that match at i with the rest of the pattern
PurposeAlts(t, i) ==
    {n \in 1..Len(PurposeLabels) :
        /\ LitSeqI(t, i, PurposeLabels[n]) /= 0
        /\ PurposeGroup(t, LitSeqI(t, i, PurposeLabels[n]))[1] /= 0}

\* group 1 of the match at i (first alternative first), or <<0, 0>>
PurposeAt(t, i) ==
    IF PurposeAlts(t, i) = {} THEN <<0, 0>>
    ELSE LET n == CHOOSE x \in PurposeAlts(t, i) :
                      \A y \in PurposeAlts(t, i) : x <= y
         IN  PurposeGroup(t, LitSeqI(t, i, PurposeLabels[n]))

PurposePattern(t, i) ==
    IF PurposeAt(t, i)[1] = 0 THEN 0 ELSE PurposeAt(t, i)[2] + 1

\* re.search(r"\d{2}:\d{2}", line)
TimePattern(t, i) == Digits(t, Lit(t, Digits(t, i, 2), ":"), 2)
HasTime(line) == Search(line, TimePattern)[1] /= 0

HasCyrillic(line) == \E i \in 1..Len(line) : line[i] \in CyrLetter
HasDigitAtPlus(line) ==
    \E i \in 1..Len(line) : line[i] \in Digit \cup {"@", "+"}

\* the line after the first line that holds a time, when it is longer than
\* 10 characters and holds a Cyrillic letter (parser.py 95-103)
PurposeAfterTime(lines) ==
    LET S == {i \in 1..(Len(lines) - 1) :
                 /\ HasTime(lines[i])
                 /\ Len(Strip(lines[i + 1])) > 10
                 /\ HasCyrillic(Strip(lines[i + 1]))}
    IN  IF S = {} THEN None
        ELSE Strip(lines[(CHOOSE x \in S : \A y \in S : x <= y) + 1])

\* the last line longer than 15 characters without digit, "@" or "+"
\* (parser.py 104-110)
PurposeLastLine(lines) ==
    LET S == {i \in 1..Len(lines) :
                 /\ Len(Strip(lines[i])) > 15
                 /\ ~HasDigitAtPlus(Strip(lines[i]))}
    IN  IF S = {} THEN None
        ELSE Strip(lines[CHOOSE x \in S : \A y \in S : y <= x])

extract_visit_purpose(text) ==
    LET m == Search(text, PurposePattern)
        g == PurposeAt(text, m[1])
        lines == SplitLines(text)
        purpose == IF Truthy(PurposeAfterTime(lines))
                   THEN PurposeAfterTime(lines)
                   ELSE PurposeLastLine(lines)
    IN  IF m[1] /= 0
        THEN RStripDot(Strip(SubSeq(text, g[1], g[2])))
        ELSE IF Truthy(purpose) THEN RStripDot(purpose) ELSE None

\* EmailParser.parse.  The vehicle, driver name and time-range fields are
\* extracted independently of the four fields below and are read neither by
\* the orchestrator nor by the file name.
parse(email_body, subject) ==
    LET full_text == Strip(subject \o <<"\n">> \o email_body)
    IN  [license_plate |-> extract_license_plate(full_text),
         driver_phone  |-> extract_driver_phone(full_text),
         visit_date    |-> extract_visit_date(full_text),
         visit_purpose |-> extract_visit_purpose(full_text)]

(***************************************************************************)
(* DocGenerator (src/modules/doc_generator.py).  A date is a record        *)
(* [d, m, y]; `now` is the wall-clock date of the call.                    *)
(***************************************************************************)
DigitToks == <<"0", "1", "2", "3", "4", "5", "6", "7", "8", "9">>

DigitVal(c) == (CHOOSE n \in 1..10 : DigitToks[n] = c) - 1

RECURSIVE NumVal(_)
NumVal(s) ==
    IF s = <<>> THEN 0
    ELSE 10 * NumVal(SubSeq(s, 1, Len(s) - 1)) + DigitVal(s[Len(s)])

Pad2(n) == <<DigitToks[((n \div 10) % 10) + 1], DigitToks[(n % 10) + 1]>>

\* %Y of strftime for the four-digit years
Pad4(n) == Pad2(n \div 100) \o Pad2(n % 100)

IsLeap(y) == (y % 4 = 0 /\ y % 100 /= 0) \/ y % 400 = 0

DaysInMonth(y, m) ==
    IF m = 2 THEN (IF IsLeap(y) THEN 29 ELSE 28)
    ELSE IF m \in {4, 6, 9, 11} THEN 30 ELSE 31

\* position of the first c at or after i, Len(t)+1 when there is none
RECURSIVE FindChar(_, _, _)
FindChar(t, c, i) ==
    IF i > Len(t) \/ t[i] = c THEN i ELSE FindChar(t, c, i + 1)

NonZero == Digit \ {"0"}

\* %d of strptime: 3[0-1]|[1-2]\d|0[1-9]|[1-9]| [1-9]
DayField(x) ==
    \/ Len(x) = 1 /\ x[1] \in NonZero
    \/ /\ Len(x) = 2
       /\ \/ x[1] = "3" /\ x[2] \in {"0", "1"}
          \/ x[1] \in {"1", "2"} /\ x[2] \in Digit
          \/ x[1] \in {"0", " "} /\ x[2] \in NonZero

\* %m of strptime: 1[0-2]|0[1-9]|[1-9]
MonthField(x) ==
    \/ Len(x) = 1 /\ x[1] \in NonZero
    \/ /\ Len(x) = 2
       /\ \/ x[1] = "1" /\ x[2] \in {"0", "1", "2"}
          \/ x[1] = "0" /\ x[2] \in NonZero

\* %Y of strptime: \d\d\d\d
YearField(x) == Len(x) = 4 /\ \A i \in 1..4 : x[i] \in Digit

\* datetime.strptime(s, "%d.%m.%Y"): [ok |-> FALSE] stands for ValueError
Strptime(s) ==
    LET p1 == FindChar(s, ".", 1)
        p2 == FindChar(s, ".", p1 + 1)
        ds == SubSeq(s, 1, p1 - 1)
        ms == SubSeq(s, p1 + 1, p2 - 1)
        ys == SubSeq(s, p2 + 1, Len(s))
        d  == NumVal(RemoveChar(ds, " "))
        m  == NumVal(ms)
        y  == NumVal(ys)
    IN  IF /\ p1 <= Len(s) /\ p2 <= Len(s)
           /\ DayField(ds) /\ MonthField(ms) /\ YearField(ys)
           /\ y >= 1 /\ d <= DaysInMonth(y, m)
        THEN [ok |-> TRUE, d |-> d, m |-> m, y |-> y]
        ELSE [ok |-> FALSE, d |-> 0, m |-> 0, y |-> 0]

\* strftime("%d.%m.%Y")
Strftime(date) ==
    Pad2(date.d) \o <<".">> \o Pad2(date.m) \o <<".">> \o Pad4(date.y)

format_date(date_str, now) ==
    IF ~Truthy(date_str) THEN Strftime(now)
    ELSE IF Strptime(date_str).ok THEN Strftime(Strptime(date_str))
    ELSE Strftime(now)

\* "Nomer ne ukazan", the default of {license_plate}
PlateDefault ==
    <<"Cn", "co", "cm", "ce", "cr", " ", "cn", "ce", " ",
      "cu", "ck", "ca", "cz", "ca", "cn">>

safe_get(value, default) == IF Truthy(value) THEN Strip(value) ELSE default

\* visit_date.replace(".", "")[2:]
visit_date_short(visit_date) ==
    LET s == RemoveChar(visit_date, ".") IN SubSeq(s, 3, Len(s))

\* f"SZ_{license_plate}_{visit_date_short}.docx"
filename(parsed_data, now) ==
    <<"Cs", "Cz", "_">>
        \o RemoveChar(safe_get(parsed_data.license_plate, PlateDefault), " ")
        \o <<"_">>
        \o visit_date_short(format_date(parsed_data.visit_date, now))
        \o <<".", "d", "o", "c", "x">>

\* os.path.join(self.output_dir, filename) and os.path.basename
OutputDir == <<"o", "/">>
PathJoin(dir, name) == dir \o name
Basename(path) ==
    LET S == {i \in 1..Len(path) : path[i] = "/"}
    IN  IF S = {} THEN path
        ELSE SubSeq(path, (CHOOSE x \in S : \A y \in S : y <= x) + 1, Len(path))

\* DocGenerator.generate: the path of the saved memo, or None when the
\* template is missing or loading, filling or saving it raises (rendered
\* is FALSE)
generate(parsed_data, now, rendered) ==
    IF rendered THEN PathJoin(OutputDir, filename(parsed_data, now)) ELSE None

(***************************************************************************)
(* The run: main() of src/main.py with the IMAP mailbox, the wall clock    *)
(* and the audit log it works on.                                          *)
(***************************************************************************)
\* bounds of the model
MaxMsgs == 2
MaxRuns == 2
MaxDay == 2
MaxRetriesArg == 5

\* defaults of MailReader.connect
DefaultMaxRetries == 3
DefaultRetryDelay == 10

\* the statuses of the audit log: "Uspekh" (success), "Oshibka" (error)
StatusSuccess == "Uspekh"
StatusError == "Oshibka"

\* the e-mails that may arrive: plate and date, no plate, no date, a date
\* that is no calendar date
Library ==
    { [subject |-> <<"ca", "1", "2", "3", "cv", "cs", "7", "7">>,
       body    |-> <<"0", "5", ".", "1", "2", ".", "2", "0", "2", "5">>],
      [subject |-> <<>>,
       body    |-> <<"0", "5", ".", "1", "2", ".", "2", "0", "2", "5">>],
      [subject |-> <<>>,
       body    |-> <<"ca", "1", "2", "3", "cv", "cs", "7", "7">>],
      [subject |-> <<>>,
       body    |-> <<"ca", "1", "2", "3", "cv", "cs", "7", "7", "\n",
                     "3", "1", ".", "0", "2", ".", "2", "0", "2", "5">>] }

\* the calendar date of day n of the model: day 1 is 31.12.2025
DateOfDay(n) ==
    IF n <= 1 THEN [d |-> 31, m |-> 12, y |-> 2025]
    ELSE [d |-> n - 1, m |-> 1, y |-> 2026]

NoData ==
    [license_plate |-> None, driver_phone |-> None,
     visit_date |-> None, visit_purpose |-> None]

VARIABLES
    inbox,          \* the INBOX: the messages by sequence number
    seen,           \* the sequence numbers that carry the \Seen flag
    today,          \* the wall-clock day
    files,          \* the audit log files on disk, by day: rows
    pc,             \* where main() stands ("idle": no run is active)
    run,            \* the number of runs started
    mail,           \* MailReader.mail is set
    max_retries,    \* arguments of MailReader.connect
    retry_delay,
    attempt,        \* loop variable of MailReader.connect
    connect_result, \* what connect returned or raised
    emails,         \* the batch fetch_unread_emails returned
    idx,            \* the message of the batch main() is at
    parsed_data,    \* locals of the loop body of main()
    license_plate,
    visit_date,
    output_file,
    error,          \* the exception the message guard caught
    file_path,      \* OperationLogger._file_path (0: None)
    file,           \* OperationLogger._file: the day of the open file (0: none)
    hist,           \* the calls of the current run, in order
    input,          \* the argument of a function under test
    now1,           \* the days of its two calls
    now2,
    out1,           \* its results
    out2,
    phase

serverVars == <<inbox, seen>>
loggerVars == <<file_path, file, files>>
connVars == <<mail, max_retries, retry_delay, attempt, connect_result>>
loopVars == <<emails, idx, parsed_data, license_plate, visit_date,
              output_file, error>>
fnVars == <<input, now1, now2, out1, out2, phase>>
vars == <<serverVars, today, loggerVars, pc, run, connVars, loopVars, hist,
          fnVars>>

FnIdle ==
    /\ input = <<>> /\ now1 = 0 /\ now2 = 0
    /\ out1 = None /\ out2 = None /\ phase = "none"

RunIdle ==
    /\ inbox = <<>> /\ seen = {} /\ files = [d \in 1..MaxDay |-> <<>>]
    /\ run = 0 /\ mail = FALSE /\ connect_result = "pending"
    /\ emails = <<>> /\ idx = 0 /\ parsed_data = NoData
    /\ license_plate = None /\ visit_date = None /\ output_file = None
    /\ error = "" /\ file_path = 0 /\ file = 0 /\ hist = <<>>

Init ==
    /\ RunIdle /\ FnIdle /\ pc = "idle" /\ today = 1
    /\ max_retries = DefaultMaxRetries /\ retry_delay = DefaultRetryDelay
    /\ attempt = 0

\* the days the clock may show at its next reading
Later(d) == {d} \cup ({d + 1} \cap (1..MaxDay))

Header == [ts |-> 0, status |-> "header", license_plate |-> <<>>,
           output_filename |-> <<>>, error_message |-> ""]

OrEmpty(v) == IF Truthy(v) THEN v ELSE <<>>

\* OperationLogger.log_operation with _open_writer.  The clock is read for
\* the timestamp (d1), for today's file name (d2) and, when the file is
\* reopened, for the path that is opened (d3).
log_operation(uid, status, plate, output_filename, error_message) ==
    \E d1 \in Later(today) : \E d2 \in Later(d1) :
    \E d3 \in (IF file_path /= d2 THEN Later(d2) ELSE {d2}) :
        LET reopen == file_path /= d2
            target == IF reopen THEN d3 ELSE file
            old    == IF reopen /\ files[target] = <<>>
                      THEN <<Header>> ELSE files[target]
            row    == [ts |-> d1, status |-> status,
                       license_plate |-> OrEmpty(plate),
                       output_filename |-> OrEmpty(output_filename),
                       error_message |-> error_message]
        IN  /\ file_path' = d2
            /\ file' = target
            /\ files' = [files EXCEPT ![target] = Append(old, row)]
            /\ today' = d3
            /\ hist' = Append(hist, [op |-> "log_operation", uid |-> uid,
                                     ok |-> status = StatusSuccess,
                                     row |-> row, data |-> NoData,
                                     path |-> None, exc |-> ""])

\* a call of the run: what was called, for which message, whether it
\* succeeded, the record, extracted data or path it wrote or returned, and
\* the exception it caught inside
Call(op, uid, ok) ==
    [op |-> op, uid |-> uid, ok |-> ok, row |-> Header, data |-> NoData,
     path |-> None, exc |-> ""]

\* a new e-mail arrives in the INBOX
Arrive ==
    /\ pc = "idle" /\ Len(inbox) < MaxMsgs
    /\ \E m \in Library : inbox' = Append(inbox, m)
    /\ UNCHANGED <<seen, today, loggerVars, pc, run, connVars, loopVars,
                   hist, fnVars>>

\* midnight passes between two runs
Tick ==
    /\ pc = "idle" /\ today < MaxDay
    /\ today' = today + 1
    /\ UNCHANGED <<serverVars, loggerVars, pc, run, connVars, loopVars,
                   hist, fnVars>>

\* main() is started: the components are constructed (main.py 28-34)
StartRun ==
    /\ pc = "idle" /\ run < MaxRuns
    /\ run' = run + 1
    /\ pc' = "connect"
    /\ mail' = FALSE
    /\ max_retries' = DefaultMaxRetries /\ retry_delay' = DefaultRetryDelay
    /\ attempt' = 1 /\ connect_result' = "pending"
    /\ emails' = <<>> /\ idx' = 0 /\ parsed_data' = NoData
    /\ license_plate' = None /\ visit_date' = None /\ output_file' = None
    /\ error' = ""
    /\ file_path' = 0 /\ file' = 0
    /\ hist' = <<>>
    /\ UNCHANGED <<serverVars, today, files, fnVars>>

\* MailReader.connect: one pass of the retry loop, or the end of the loop
connect ==
    /\ pc = "connect"
    /\ IF attempt > max_retries
       THEN \* range(1, max_retries + 1) is exhausted: the function ends
            \* without a return statement
            /\ connect_result' = "None"
            /\ pc' = "connected"
            /\ UNCHANGED <<mail, attempt, hist>>
       ELSE \* the attempt fails in IMAP4_SSL(), which leaves self.mail as
            \* it was, or in login(), after self.mail was assigned
            \E ok \in BOOLEAN : \E assigned \in BOOLEAN :
            /\ hist' = Append(hist, Call("IMAP4_SSL", attempt, ok))
            /\ mail' = (ok \/ mail \/ assigned)
            /\ IF ok
               THEN /\ connect_result' = "True"
                    /\ pc' = "connected"
                    /\ UNCHANGED attempt
               ELSE IF attempt < max_retries
               THEN \* time.sleep(retry_delay) raises ValueError when
                    \* the delay is negative
                    IF retry_delay < 0
                    THEN /\ connect_result' = "ValueError"
                         /\ pc' = "connected"
                         /\ UNCHANGED attempt
                    ELSE /\ attempt' = attempt + 1
                         /\ UNCHANGED <<connect_result, pc>>
               ELSE /\ connect_result' = "False"
                    /\ pc' = "connected"
                    /\ UNCHANGED attempt
    /\ UNCHANGED <<serverVars, today, loggerVars, run, max_retries,
                   retry_delay, loopVars, fnVars>>

\* main.py 38-43, and 103-109 when connect raised
after_connect ==
    /\ pc = "connected"
    /\ IF connect_result = "True"
       THEN /\ pc' = "fetch"
            /\ UNCHANGED <<today, loggerVars, hist>>
       ELSE /\ log_operation(0, StatusError, None, None,
                IF connect_result = "ValueError"
                THEN "critical: ValueError" ELSE "IMAP connect failed")
            /\ pc' = "disconnect"
    /\ UNCHANGED <<serverVars, run, connVars, loopVars, fnVars>>

\* the sequence numbers of S in ascending order
RECURSIVE Sorted(_)
Sorted(S) ==
    IF S = {} THEN <<>>
    ELSE LET x == CHOOSE a \in S : \A b \in S : a <= b
         IN  <<x>> \o Sorted(S \ {x})

Unseen == {n \in 1..Len(inbox) : n \notin seen}

\* MailReader.fetch_unread_emails and main.py 46-49.  SELECT opens the
\* INBOX read-write and FETCH (RFC822) is FETCH BODY[]: the server sets
\* \Seen on every message whose body it returns (RFC 3501, 6.4.5).  A
\* message whose FETCH does not answer OK is skipped.
fetch_unread_emails ==
    /\ pc = "fetch"
    /\ \E search_ok \in BOOLEAN : \E fetched \in SUBSET Unseen :
        LET got == IF search_ok THEN fetched ELSE {}
        IN  /\ emails' = Sorted(got)
            /\ seen' = seen \cup got
            /\ hist' = Append(hist, Call("fetch_unread_emails", 0, got /= {}))
            /\ IF got = {}
               THEN pc' = "disconnect" /\ idx' = 0
               ELSE pc' = "parse" /\ idx' = 1
    /\ UNCHANGED <<inbox, today, loggerVars, run, connVars, parsed_data,
                   license_plate, visit_date, output_file, error, fnVars>>

uid == emails[idx]

\* main.py 101, 51: the loop goes on to the next message or ends
NextEmail ==
    IF idx < Len(emails)
    THEN idx' = idx + 1 /\ pc' = "parse"
    ELSE idx' = idx /\ pc' = "disconnect"

\* parse_email with the date left out of the check of the required fields
parse_email_plate_only ==
    /\ pc = "parse"
    /\ LET data == parse(inbox[uid].body, inbox[uid].subject)
       IN  /\ parsed_data' = data
           /\ license_plate' = data.license_plate
           /\ visit_date' = data.visit_date
           /\ output_file' = None
           /\ IF ~Truthy(data.license_plate)
              THEN error' = "ValueError: required fields" /\ pc' = "except"
              ELSE error' = "" /\ pc' = "generate"
    /\ hist' = Append(hist,
           [Call("parse", uid, TRUE) EXCEPT !.data = parsed_data'])
    /\ UNCHANGED <<serverVars, today, loggerVars, run, connVars, emails, idx,
                   fnVars>>

\* main.py 52-65: extraction and the required fields
parse_email ==
    /\ pc = "parse"
    /\ LET data == parse(inbox[uid].body, inbox[uid].subject)
       IN  /\ parsed_data' = data
           /\ license_plate' = data.license_plate
           /\ visit_date' = data.visit_date
           /\ output_file' = None
           /\ IF ~Truthy(data.license_plate) \/ ~Truthy(data.visit_date)
              THEN error' = "ValueError: required fields" /\ pc' = "except"
              ELSE error' = "" /\ pc' = "generate"
    /\ hist' = Append(hist,
           [Call("parse", uid, TRUE) EXCEPT !.data = parsed_data'])
    /\ UNCHANGED <<serverVars, today, loggerVars, run, connVars, emails, idx,
                   fnVars>>

\* generate_document with the returned path not looked at: the memo is
\* sent also when generate returned None
generate_document_unchecked ==
    /\ pc = "generate"
    /\ \E d \in Later(today) : \E rendered \in BOOLEAN :
        LET path == generate(parsed_data, DateOfDay(d), rendered)
        IN  /\ today' = d
            /\ output_file' = path
            /\ hist' = Append(hist,
                   [Call("generate", uid, Truthy(path)) EXCEPT !.path = path])
            /\ error' = "" /\ pc' = "send"
    /\ UNCHANGED <<serverVars, loggerVars, run, connVars, emails, idx,
                   parsed_data, license_plate, visit_date, fnVars>>

\* main.py 67-70
generate_document ==
    /\ pc = "generate"
    /\ \E d \in Later(today) : \E rendered \in BOOLEAN :
        LET path == generate(parsed_data, DateOfDay(d), rendered)
        IN  /\ today' = d
            /\ output_file' = path
            /\ hist' = Append(hist,
                   [Call("generate", uid, Truthy(path)) EXCEPT !.path = path])
            /\ IF ~Truthy(path)
               THEN error' = "RuntimeError: generate" /\ pc' = "except"
               ELSE error' = "" /\ pc' = "send"
    /\ UNCHANGED <<serverVars, loggerVars, run, connVars, emails, idx,
                   parsed_data, license_plate, visit_date, fnVars>>

\* send_pass_request with its answer ignored
send_pass_request_unchecked ==
    /\ pc = "send"
    /\ \E success \in BOOLEAN :
        hist' = Append(hist, Call("send_pass_request", uid, success))
    /\ error' = "" /\ pc' = "mark"
    /\ UNCHANGED <<serverVars, today, loggerVars, run, connVars, emails, idx,
                   parsed_data, license_plate, visit_date, output_file,
                   fnVars>>

\* main.py 72-80: EmailSender.send_pass_request answers True or False
send_pass_request ==
    /\ pc = "send"
    /\ \E success \in BOOLEAN :
        /\ hist' = Append(hist, Call("send_pass_request", uid, success))
        /\ IF ~success
           THEN error' = "RuntimeError: send" /\ pc' = "except"
           ELSE error' = "" /\ pc' = "mark"
    /\ UNCHANGED <<serverVars, today, loggerVars, run, connVars, emails, idx,
                   parsed_data, license_plate, visit_date, output_file,
                   fnVars>>

\* main.py 83 and MailReader.mark_as_read: STORE +FLAGS \Seen, False when
\* the command raises
mark_as_read ==
    /\ pc = "mark"
    /\ \E stored \in BOOLEAN :
        /\ seen' = IF stored THEN seen \cup {uid} ELSE seen
        /\ hist' = Append(hist, Call("mark_as_read", uid, stored))
    /\ pc' = "log_success"
    /\ UNCHANGED <<inbox, today, loggerVars, run, connVars, loopVars, fnVars>>

\* log_success with the path of the file in place of its base name
log_success_full_path ==
    /\ pc = "log_success"
    /\ log_operation(uid, StatusSuccess, license_plate, output_file, "")
    /\ NextEmail
    /\ UNCHANGED <<serverVars, run, connVars, emails, parsed_data,
                   license_plate, visit_date, output_file, error, fnVars>>

\* main.py 84-89
log_success ==
    /\ pc = "log_success"
    /\ log_operation(uid, StatusSuccess, license_plate,
                     Basename(output_file), "")
    /\ NextEmail
    /\ UNCHANGED <<serverVars, run, connVars, emails, parsed_data,
                   license_plate, visit_date, output_file, error, fnVars>>

\* except_email with the guard around the loop instead of its body: the
\* first failure ends the batch
except_email_break ==
    /\ pc = "except"
    /\ log_operation(uid, StatusError, license_plate,
                     IF Truthy(output_file) THEN Basename(output_file)
                     ELSE None,
                     error)
    /\ idx' = idx /\ pc' = "disconnect"
    /\ UNCHANGED <<serverVars, run, connVars, emails, parsed_data,
                   license_plate, visit_date, output_file, error, fnVars>>

\* main.py 91-99: the guard of one message
except_email ==
    /\ pc = "except"
    /\ log_operation(uid, StatusError, license_plate,
                     IF Truthy(output_file) THEN Basename(output_file)
                     ELSE None,
                     error)
    /\ NextEmail
    /\ UNCHANGED <<serverVars, run, connVars, emails, parsed_data,
                   license_plate, visit_date, output_file, error, fnVars>>

\* disconnect without its try/except: what close() or logout() raises
\* leaves the finally block of main(), and OperationLogger.close is skipped
disconnect_unguarded ==
    /\ pc = "disconnect"
    /\ \E raised \in (IF mail THEN BOOLEAN ELSE {FALSE}) :
        /\ hist' = Append(hist, Call("disconnect", 0, ~raised))
        /\ pc' = IF raised THEN "idle" ELSE "close"
    /\ UNCHANGED <<serverVars, today, loggerVars, run, connVars, loopVars,
                   fnVars>>

\* main.py 112-113 and MailReader.disconnect: with self.mail set, close()
\* and logout() are called; what they raise (close() is illegal before
\* login and before SELECT, the connection may be gone) is caught by
\* "except Exception" and logged as a warning, and disconnect returns
disconnect ==
    /\ pc = "disconnect"
    /\ \E raised \in (IF mail THEN BOOLEAN ELSE {FALSE}) :
        hist' = Append(hist,
            [Call("disconnect", 0, TRUE) EXCEPT
                !.exc = IF raised THEN "imaplib.error" ELSE ""])
    /\ pc' = "close"
    /\ UNCHANGED <<serverVars, today, loggerVars, run, connVars, loopVars,
                   fnVars>>

\* main.py 114-115 and OperationLogger.close
close ==
    /\ pc = "close"
    /\ hist' = Append(hist, Call("close", 0, file /= 0))
    /\ file' = 0
    /\ pc' = "idle"
    /\ UNCHANGED <<serverVars, today, file_path, files, run, connVars,
                   loopVars, fnVars>>

Next ==
    \/ Arrive \/ Tick \/ StartRun
    \/ connect \/ after_connect \/ fetch_unread_emails
    \/ parse_email \/ generate_document \/ send_pass_request
    \/ mark_as_read \/ log_success \/ except_email
    \/ disconnect \/ close

Spec == Init /\ [][Next]_vars

(***************************************************************************)
(* MailReader.connect called on its own, with any arguments.               *)
(***************************************************************************)
RetryDelays == {-1, 0, 5, DefaultRetryDelay}

InitConnect ==
    /\ RunIdle /\ FnIdle /\ pc = "connect" /\ today = 1
    /\ max_retries \in 0..MaxRetriesArg
    /\ retry_delay \in RetryDelays
    /\ attempt = 1

SpecConnect == InitConnect /\ [][connect]_vars

(***************************************************************************)
(* EmailParser.parse called on its own: the driver's phone.                *)
(***************************************************************************)
Seps == {<<>>, <<" ">>, <<"-">>, <<"\t">>, <<"\n">>, <<"NBSP">>}

\* "+7", the operator code bare or in parentheses, and the three groups of
\* digits, with a separator (or none) before each group
PhoneTexts ==
    { pre \o <<"+", "7">> \o s[1] \o code \o s[2] \o <<"3", "4", "5">>
          \o s[3] \o <<"6", "7">> \o s[4] \o <<"8", "9">> \o post :
        pre \in {<<>>, <<"cv", "ci", "cz", "ci", "ct", " ">>},
        code \in {<<"9", "1", "2">>, <<"(", "9", "1", "2", ")">>},
        s \in [1..4 -> Seps],
        post \in {<<>>, <<"0">>} }

InitPhone ==
    /\ RunIdle /\ pc = "idle" /\ today = 1
    /\ max_retries = DefaultMaxRetries /\ retry_delay = DefaultRetryDelay
    /\ attempt = 0
    /\ input \in PhoneTexts
    /\ now1 = 0 /\ now2 = 0 /\ out1 = None /\ out2 = None
    /\ phase = "input"

ParsePhone ==
    /\ phase = "input"
    /\ out1' = parse(input, <<>>).driver_phone
    /\ phase' = "parsed"
    /\ UNCHANGED <<serverVars, today, loggerVars, pc, run, connVars,
                   loopVars, hist, input, now1, now2, out2>>

SpecPhone == InitPhone /\ [][ParsePhone]_vars

(***************************************************************************)
(* EmailParser.parse called on its own: the purpose of the visit, given    *)
(* with a label.  The input keeps the parts the text is made of.           *)
(***************************************************************************)
Dostavka == <<"Cd", "co", "cs", "ct", "ca", "cv", "ck", "ca">>
Gruza == <<"cg", "cr", "cu", "cz", "ca">>

PurposeValues == {Dostavka \o <<" ">> \o Gruza, Gruza}

\* a line of text before the label, and one after the value
Vizit == <<"cv", "ci", "cz", "ci", "ct">>

PurposeInputs ==
    [pre   : {<<>>, Vizit \o <<"\n">>},
     label : {n \in 1..Len(PurposeLabels) : TRUE},
     upper : BOOLEAN,
     colon : {<<>>, <<":">>},
     gap   : {<<>>, <<" ">>, <<" ", " ">>},
     value : PurposeValues,
     dots  : {<<>>, <<".">>, <<".", ".", ".">>},
     post  : {<<>>, <<"\n">> \o Vizit}]

\* the label as the alternation spells it; the two labels that end in a
\* colon take none after it
LabelText(in) ==
    LET l == PurposeLabels[in.label]
    IN  (IF in.upper THEN UpperStr(l) ELSE l)
            \o (IF l[Len(l)] = ":" THEN <<>> ELSE in.colon)

PurposeText(in) ==
    in.pre \o LabelText(in) \o in.gap \o in.value \o in.dots \o in.post

InitPurpose ==
    /\ RunIdle /\ pc = "idle" /\ today = 1
    /\ max_retries = DefaultMaxRetries /\ retry_delay = DefaultRetryDelay
    /\ attempt = 0
    /\ input \in PurposeInputs
    /\ now1 = 0 /\ now2 = 0 /\ out1 = None /\ out2 = None
    /\ phase = "input"

ParsePurpose ==
    /\ phase = "input"
    /\ out1' = parse(PurposeText(input), <<>>).visit_purpose
    /\ phase' = "parsed"
    /\ UNCHANGED <<serverVars, today, loggerVars, pc, run, connVars,
                   loopVars, hist, input, now1, now2, out2>>

SpecPurpose == InitPurpose /\ [][ParsePurpose]_vars

(***************************************************************************)
(* DocGenerator.generate called twice on the record parse extracts from    *)
(* one e-mail, while the days pass.                                        *)
(***************************************************************************)
DocPlates ==
    { <<"ca", "1", "2", "3", "cv", "cs", "7", "7">>,
      <<"A", "1", "2", "3", "b", "c", "7", "7", "7">> }
DocDays == {<<"0", "0">>, <<"0", "5">>, <<"2", "9">>, <<"3", "1">>}
DocMonths == {<<"0", "2">>, <<"1", "2">>, <<"1", "3">>}
DocYears == {<<"2", "0", "2", "4">>, <<"2", "0", "2", "5">>}

DocTexts ==
    { p \o <<"\n">> \o d \o <<".">> \o m \o <<".">> \o y :
        p \in DocPlates, d \in DocDays, m \in DocMonths, y \in DocYears }

InitDoc ==
    /\ RunIdle /\ pc = "idle" /\ today = 1
    /\ max_retries = DefaultMaxRetries /\ retry_delay = DefaultRetryDelay
    /\ attempt = 0
    /\ \E t \in DocTexts : input = parse(t, <<>>)
    /\ now1 = 0 /\ now2 = 0 /\ out1 = None /\ out2 = None
    /\ phase = "input"

GenerateFirst ==
    /\ phase = "input"
    /\ \E rendered \in BOOLEAN :
        out1' = generate(input, DateOfDay(today), rendered)
    /\ now1' = today
    /\ phase' = "once"
    /\ UNCHANGED <<serverVars, today, loggerVars, pc, run, connVars,
                   loopVars, hist, input, now2, out2>>

GenerateAgain ==
    /\ phase = "once"
    /\ \E rendered \in BOOLEAN :
        out2' = generate(input, DateOfDay(today), rendered)
    /\ now2' = today
    /\ phase' = "twice"
    /\ UNCHANGED <<serverVars, today, loggerVars, pc, run, connVars,
                   loopVars, hist, input, now1, out1>>

Midnight ==
    /\ phase \in {"input", "once"} /\ today < MaxDay
    /\ today' = today + 1
    /\ UNCHANGED <<serverVars, loggerVars, pc, run, connVars, loopVars,
                   hist, fnVars>>

NextDoc == GenerateFirst \/ Midnight \/ GenerateAgain

SpecDoc == InitDoc /\ [][NextDoc]_vars

(***************************************************************************)
(* The calls and the audit records of the current run.                     *)
(***************************************************************************)
Calls(op, u) ==
    {i \in 1..Len(hist) : hist[i].op = op /\ hist[i].uid = u}

CallsOk(op, u) == {i \in Calls(op, u) : hist[i].ok}

Records(u, status) ==
    {i \in Calls("log_operation", u) : hist[i].row.status = status}

\* the messages of the batch whose turn is over
Done(u) ==
    \E j \in 1..Len(emails) :
        /\ emails[j] = u
        /\ j < idx \/ pc \in {"disconnect", "close", "idle"}

Batch == {emails[j] : j \in 1..Len(emails)}

\* the record parse returned for message u (u has a parse call)
Extracted(u) == hist[CHOOSE i \in Calls("parse", u) : TRUE].data

Valid(u) ==
    /\ Calls("parse", u) /= {}
    /\ Truthy(Extracted(u).license_plate)
    /\ Truthy(Extracted(u).visit_date)

C2_FailedStaysUnseen ==
    pc = "idle" =>
        \A u \in Batch : Records(u, StatusError) /= {} => u \notin seen

(***************************************************************************)
(* C3.  A message whose extracted record lacks the plate or the date gets  *)
(* no generate, send_pass_request or mark_as_read call, and when its turn  *)
(* is over the run has written exactly one record for it, an error record. *)
(***************************************************************************)
C3_MissingFieldFails ==
    \A u \in Batch :
        (Calls("parse", u) /= {} /\ ~Valid(u)) =>
            /\ Calls("generate", u) = {}
            /\ Calls("send_pass_request", u) = {}
            /\ Calls("mark_as_read", u) = {}
            /\ Records(u, StatusSuccess) = {}
            /\ Done(u) => Cardinality(Records(u, StatusError)) = 1

\* a message without a date and a message without a plate were both handled
C3_Witness ==
    \E u, v \in Batch :
        /\ Done(u) /\ Done(v)
        /\ ~Truthy(Extracted(u).visit_date)
        /\ Truthy(Extracted(u).license_plate)
        /\ ~Truthy(Extracted(v).license_plate)
        /\ Records(u, StatusError) /= {} /\ Records(v, StatusError) /= {}

(***************************************************************************)
(* C4.  A message with plate and date whose memo was generated and sent    *)
(* has, when its turn is over, exactly one record, a success record with   *)
(* the plate and the base name of the generated file, and exactly one      *)
(* mark_as_read call.                                                      *)
(***************************************************************************)
C4_SuccessOnce ==
    \A u \in Batch :
        (/\ Done(u) /\ Valid(u)
         /\ CallsOk("generate", u) /= {}
         /\ CallsOk("send_pass_request", u) /= {}) =>
            /\ Cardinality(Calls("mark_as_read", u)) = 1
            /\ Records(u, StatusError) = {}
            /\ Cardinality(Records(u, StatusSuccess)) = 1
            /\ \A i \in Records(u, StatusSuccess) :
                /\ hist[i].row.license_plate = Extracted(u).license_plate
                /\ \E g \in CallsOk("generate", u) :
                    PathJoin(OutputDir, hist[i].row.output_filename)
                        = hist[g].path

\* a sent message has its success record
C4_Witness ==
    \E u \in Batch :
        /\ Done(u)
        /\ CallsOk("send_pass_request", u) /= {}
        /\ Records(u, StatusSuccess) /= {}

C6_SameFilenameTwice ==
    (/\ phase = "twice"
     /\ Truthy(input.license_plate) /\ Truthy(input.visit_date)
     /\ Truthy(out1) /\ Truthy(out2)) => out1 = out2

(***************************************************************************)
(* C7.  For a record with a plate and a visit date DD.MM.YYYY that is a    *)
(* calendar date, the file is named SZ_<plate without spaces>_<YYMMDD>     *)
(* .docx: _A123VS77_251205 for 05.12.2025 and A123VS77.                    *)
(***************************************************************************)
C7_FilenameFormat ==
    (/\ phase \in {"once", "twice"} /\ Truthy(out1)
     /\ Truthy(input.license_plate) /\ Truthy(input.visit_date)
     /\ Strptime(input.visit_date).ok) =>
        LET vd == input.visit_date
        IN  Basename(out1) =
                <<"Cs", "Cz", "_">>
                    \o RemoveChar(input.license_plate, " ")
                    \o <<"_", vd[9], vd[10], vd[4], vd[5], vd[1], vd[2]>>
                    \o <<".", "d", "o", "c", "x">>

(***************************************************************************)
(* C8.  The driver_phone that parse returns is absent or is "+7" followed  *)
(* by ten digits and nothing else.                                         *)
(***************************************************************************)
C8_PhoneCanonical ==
    phase = "parsed" =>
        \/ out1 = None
        \/ /\ Len(out1) = 12
           /\ out1[1] = "+" /\ out1[2] = "7"
           /\ \A i \in 3..12 : out1[i] \in Digit

(***************************************************************************)
(* C9.  For a text with a purpose label, an optional colon and a value on  *)
(* the same line, the visit_purpose that parse returns is the value,       *)
(* without the label, the colon or the trailing periods.                   *)
(***************************************************************************)
C9_PurposeIsValue ==
    phase = "parsed" => out1 = input.value

(***************************************************************************)
(* C10.  connect makes at most max_retries attempts, returns True at the   *)
(* first attempt that succeeds and False after max_retries failed          *)
(* attempts, and returns nothing else.                                     *)
(***************************************************************************)
Attempts == {i \in 1..Len(hist) : hist[i].op = "IMAP4_SSL"}

C10_RunAborts ==
    (pc \in {"disconnect", "close", "idle"} /\ run > 0
     /\ connect_result /= "True") =>
        /\ \A i \in 1..Len(hist) :
            hist[i].op \in {"IMAP4_SSL", "log_operation", "disconnect",
                            "close"}
        /\ Cardinality({i \in 1..Len(hist) :
               hist[i].op = "log_operation"
               /\ hist[i].row.status = StatusError}) = 1

(***************************************************************************)
(* The run with exceptions that leave the guard of one message: the print  *)
(* of main.py 52 stands before the try, and what the handler (92-99)       *)
(* raises, before its record is written, is not caught by it.  The guard   *)
(* of main() (103-109) takes them; its own log_operation may raise too,    *)
(* and the finally block runs in either case.                              *)
(***************************************************************************)
unexpected_exception ==
    /\ pc \in {"parse", "except"}
    /\ error' = "critical: unexpected"
    /\ pc' = "critical"
    /\ UNCHANGED <<serverVars, today, loggerVars, run, connVars, emails, idx,
                   parsed_data, license_plate, visit_date, output_file, hist,
                   fnVars>>

except_main ==
    /\ pc = "critical"
    /\ \/ log_operation(0, StatusError, None, None, error)
       \/ UNCHANGED <<today, loggerVars, hist>>
    /\ pc' = "disconnect"
    /\ UNCHANGED <<serverVars, run, connVars, loopVars, fnVars>>

NextFault == Next \/ unexpected_exception \/ except_main

SpecFault == Init /\ [][NextFault]_vars

\* the calls of op in the current run
CallsOf(op) == {i \in 1..Len(hist) : hist[i].op = op}

(***************************************************************************)
(* C11.  When a run is over, however it ended, disconnect was called once  *)
(* and close once, as the last two calls of the run and in this order, and *)
(* no log file is left open; no call of disconnect raised.                 *)
(***************************************************************************)
C11_CleanupOnExit ==
    /\ \A i \in CallsOf("disconnect") : hist[i].ok
    /\ (pc = "idle" /\ run > 0) =>
        /\ Cardinality(CallsOf("disconnect")) = 1
        /\ Cardinality(CallsOf("close")) = 1
        /\ Len(hist) >= 2
        /\ hist[Len(hist) - 1].op = "disconnect"
        /\ hist[Len(hist)].op = "close"
        /\ file = 0

\* a run that an exception outside the guard of a message ended, after a
\* message of the batch was handled, and whose disconnect caught what
\* close() raised
C11_Witness ==
    /\ pc = "idle" /\ run > 0
    /\ error = "critical: unexpected"
    /\ \E u \in Batch : Calls("log_operation", u) /= {}
    /\ \E i \in CallsOf("disconnect") : hist[i].exc /= ""

(***************************************************************************)
(* C12.  Every log file on disk begins with the header row and has no      *)
(* other header row, and every record in the file of a day carries a       *)
(* timestamp of that day.                                                  *)
(***************************************************************************)
C12_RecordInItsDayFile ==
    \A d \in 1..MaxDay :
        files[d] /= <<>> =>
            /\ files[d][1] = Header
            /\ \A i \in 2..Len(files[d]) :
                /\ files[d][i].status /= "header"
                /\ files[d][i].ts = d

(***************************************************************************)
(* C13.  A message whose mark_as_read call returned False, after its memo  *)
(* was generated and sent, has when its turn is over one success record    *)
(* and no error record, and does not carry \Seen, so that the next run's   *)
(* search returns it.                                                      *)
(***************************************************************************)
C13_MarkFailedStaysUnseen ==
    \A u \in Batch :
        (/\ Done(u)
         /\ Calls("mark_as_read", u) /= {}
         /\ CallsOk("mark_as_read", u) = {}) =>
            /\ Cardinality(Records(u, StatusSuccess)) = 1
            /\ Records(u, StatusError) = {}
            /\ u \notin seen

(***************************************************************************)
(* C14.  The calls made for the messages of a batch follow the order of    *)
(* the batch, a message's calls never coming after those of a later one;   *)
(* parse, generate, send_pass_request and mark_as_read are each called at  *)
(* most once for a message; and send_pass_request is called for a message  *)
(* only after generate returned a path for it.                             *)
(***************************************************************************)
MessageOps == {"parse", "generate", "send_pass_request", "mark_as_read"}

\* the calls made for one message of the batch
MessageCalls ==
    {i \in 1..Len(hist) :
        \/ hist[i].op \in MessageOps
        \/ hist[i].op = "log_operation" /\ hist[i].uid /= 0}

\* the place of message u in the batch
Place(u) == CHOOSE j \in 1..Len(emails) : emails[j] = u

C14_SequentialOnce ==
    /\ \A i, j \in MessageCalls :
        i < j => Place(hist[i].uid) <= Place(hist[j].uid)
    /\ \A u \in Batch : \A op \in MessageOps :
        Cardinality(Calls(op, u)) <= 1
    /\ \A u \in Batch : \A s \in Calls("send_pass_request", u) :
        \E g \in CallsOk("generate", u) : g < s /\ Truthy(hist[g].path)

\* a finished run over a batch of two messages, for each of which a memo
\* was generated and send_pass_request was called
C14_Witness ==
    /\ pc = "idle" /\ Len(emails) = 2
    /\ \A u \in Batch :
        /\ CallsOk("generate", u) /= {}
        /\ Calls("send_pass_request", u) /= {}

====
